---------------------------- MODULE Spec2Model ----------------------------
(***************************************************************************)
(* A model of the point-cloud viewer of src/components/PointCloudViewer.tsx *)
(* (both revisions held in the file: the damped-orbit viewer, lines 1-300,  *)
(* and the free-trackball viewer, lines 302-619).                           *)
(*                                                                         *)
(* Numbers.  A JavaScript number is modelled as an exact rational           *)
(* [n |-> numerator, d |-> denominator], d >= 0, in lowest terms; d = 0     *)
(* stands for +Infinity (n = 1), -Infinity (n = -1) and NaN (n = 0).        *)
(* Rounding to binary floating point (Float32Array storage, the doubles     *)
(* 0.45, 0.1, ...) is not modelled: every decimal literal of the source is  *)
(* the rational it denotes.                                                 *)
(***************************************************************************)
EXTENDS Integers, Sequences, FiniteSets, TLC

VARIABLES
    variant,     \* "orbit" (lines 1-300) or "trackball" (lines 302-619)
    filterOpt,   \* the `filter` prop handed to the component by its parent
    buffer,      \* the bytes served at `src` (the fetch response body)
    pc,          \* position of the fetch pipeline of the effect
    data,        \* `const data` of the load handler (result of parseLssnap)
    scene,       \* children the load handler added to `scene`
    camera,      \* `camera.position`, `camera.up`
    controls,    \* `controls.target`, `controls.autoRotate`
    s,           \* `stateRef.current`
    dom,         \* the status / stats / controls elements
    frames,      \* number of animation frames run so far
    session,     \* the effect run that is current: its number, whether its
                 \* cleanup has not run, the fetches it issued
    win,         \* the window: pending animation-frame callbacks, resize
                 \* listeners, the next animation-frame id
    stale,       \* the sessions torn down by a change of `src` / `filter`:
                 \* stale[k] holds the objects of the closure of session k
                 \* and where its pipeline stood at the cleanup (tornAt)
    log,         \* the last callback the window ran and what it did
    released,    \* <<session, resource>> for every resource disposed of
    hero         \* the hero canvas of a project page: what initHeroAnimation
                 \* left registered with the window, and the callbacks run

vars ==
    <<variant, filterOpt, buffer, pc, data, scene, camera, controls, s, dom, frames,
      session, win, stale, log, released, hero>>

\* the variables that outlive the closure of one run of the effect
host == <<session, win, stale, log, released>>

-----------------------------------------------------------------------------
(* Bounds of the model *)

\* animation frames a behaviour may run
MaxFrames == 2
\* vertices of the generated point clouds beyond the two that pin the box
MaxFree == 1
\* runs of the effect in the life of a component
MaxSessions == 2
\* pointer gestures applied to a camera
MaxGestures == 1

-----------------------------------------------------------------------------
(* JavaScript numbers as exact rationals *)

Abs(a) == IF a < 0 THEN -a ELSE a

Sign(a) == IF a < 0 THEN -1 ELSE IF a > 0 THEN 1 ELSE 0

RECURSIVE Gcd(_, _)
Gcd(a, b) == IF b = 0 THEN a ELSE Gcd(b, a % b)

\* the number n/d for d >= 0, in lowest terms
Rat(n, d) ==
    IF d = 0 THEN [n |-> Sign(n), d |-> 0]
    ELSE LET g == Gcd(Abs(n), d) IN [n |-> n \div g, d |-> d \div g]

Int2Num(i) == [n |-> i, d |-> 1]
NaN == [n |-> 0, d |-> 0]
PosInf == [n |-> 1, d |-> 0]
NegInf == [n |-> -1, d |-> 0]
IsNaN(a) == a.n = 0 /\ a.d = 0
IsFinite(a) == a.d > 0

\* a + b, a - b, a * b as IEEE arithmetic extends them to the infinities
Plus(a, b) ==
    IF a.d = 0 /\ b.d = 0 THEN (IF a.n = b.n THEN a ELSE NaN)
    ELSE Rat(a.n * b.d + b.n * a.d, a.d * b.d)
Neg(a) == [n |-> -a.n, d |-> a.d]
Minus(a, b) == Plus(a, Neg(b))
Times(a, b) ==
    IF IsNaN(a) \/ IsNaN(b) THEN NaN ELSE Rat(a.n * b.n, a.d * b.d)

\* a / k for an integer k > 0 (`x / 1000.0`, `x / 255.0`)
DivBy(a, k) == Rat(a.n, a.d * k)

\* the comparisons of JavaScript: every comparison with NaN is false
Leq(a, b) ==
    /\ ~IsNaN(a) /\ ~IsNaN(b)
    /\ IF a.d = 0 /\ b.d = 0 THEN a.n <= b.n ELSE a.n * b.d <= b.n * a.d
Geq(a, b) == Leq(b, a)
Lt(a, b) == Leq(a, b) /\ a # b
Gt(a, b) == Lt(b, a)

\* Math.min / Math.max of two numbers
Min2(a, b) == IF IsNaN(a) \/ IsNaN(b) THEN NaN ELSE IF Leq(a, b) THEN a ELSE b
Max2(a, b) == IF IsNaN(a) \/ IsNaN(b) THEN NaN ELSE IF Geq(a, b) THEN a ELSE b

Zero == Int2Num(0)
Vec3(x, y, z) == <<x, y, z>>
VecZero == Vec3(Zero, Zero, Zero)

-----------------------------------------------------------------------------
(* The wire layout of a .lssnap buffer (spec section 6): the writer side,   *)
(* used to build the input buffers.                                         *)

\* the two bytes of a signed 16-bit integer, little-endian two's complement
LE16(q) ==
    LET u == IF q < 0 THEN q + 65536 ELSE q
    IN  <<u % 256, u \div 256>>

\* the four bytes of a signed 32-bit integer, little-endian two's complement
LE32(v) ==
    LET lo == v % 65536              \* in 0 .. 65535 also for negative v
        hi == ((v - lo) \div 65536) % 65536
    IN  <<lo % 256, lo \div 256, hi % 256, hi \div 256>>

\* a 9-byte vertex record: p = <<x, y, z, r, g, b>>, x y z in millimetres
VertexRecord(p) == LE16(p[1]) \o LE16(p[2]) \o LE16(p[3]) \o <<p[4], p[5], p[6]>>

RECURSIVE VertexRecords(_)
VertexRecords(ps) ==
    IF ps = <<>> THEN <<>> ELSE VertexRecord(Head(ps)) \o VertexRecords(Tail(ps))

\* header: magic bytes, version, vertexCount, annotationBlockLength, reserved
Header(magic, version, vc, alen) ==
    magic \o <<version>> \o LE32(vc) \o LE32(alen) \o <<0, 0, 0, 0>>

\* the magic literal 'LSS' (line 29), as character codes
MagicLSS == <<76, 83, 83>>

-----------------------------------------------------------------------------
(* DataView reads (lines 26-33, 38-43).  `off` is the 0-based byte offset;  *)
(* a read that leaves the buffer throws a RangeError, which the callers     *)
(* test with InBounds before reading.                                       *)

InBounds(buf, off, size) == off >= 0 /\ off + size <= Len(buf)

getUint8(buf, off) == buf[off + 1]

\* view.getUint16(off, true): the read that forgets the sign
getUint16(buf, off) == buf[off + 1] + 256 * buf[off + 2]

\* view.getInt16(off, true)
getInt16(buf, off) ==
    LET u == buf[off + 1] + 256 * buf[off + 2]
    IN  IF u >= 32768 THEN u - 65536 ELSE u

\* view.getInt32(off, true)
getInt32(buf, off) ==
    LET b3 == buf[off + 4]
        top == IF b3 >= 128 THEN b3 - 256 ELSE b3
    IN  top * 16777216 + buf[off + 3] * 65536 + buf[off + 2] * 256 + buf[off + 1]

-----------------------------------------------------------------------------
(* Text.  A text is a sequence of character codes (of an ASCII text, also  *)
(* its UTF-8 bytes).  Chars turns a literal into its codes; in a literal    *)
(* the apostrophe stands for the double quote (code 34).                    *)

Lower == "abcdefghijklmnopqrstuvwxyz"
Digits == "0123456789"

IndexIn(str, c) == CHOOSE i \in 1..Len(str) : SubSeq(str, i, i) = c

Ord(c) ==
    CASE c = "'" -> 34
      [] c = " " -> 32
      [] c = "," -> 44
      [] c = "-" -> 45
      [] c = "." -> 46
      [] c = ":" -> 58
      [] c = "[" -> 91
      [] c = "]" -> 93
      [] c = "{" -> 123
      [] c = "}" -> 125
      [] \E i \in 1..Len(Digits) : SubSeq(Digits, i, i) = c -> 47 + IndexIn(Digits, c)
      [] OTHER -> 96 + IndexIn(Lower, c)

Chars(str) == [i \in 1..Len(str) |-> Ord(SubSeq(str, i, i))]

\* new TextDecoder().decode(bytes) (lines 49, 351): ASCII bytes decode to
\* themselves; a byte that is not ASCII is taken as an invalid sequence,
\* which the (non-fatal) decoder replaces by U+FFFD
TextDecode(bytes) == [i \in 1..Len(bytes) |-> IF bytes[i] < 128 THEN bytes[i] ELSE 65533]

-----------------------------------------------------------------------------
(* JavaScript values, as JSON.parse produces them and the load handler      *)
(* reads them: a record tagged by k.                                        *)

Undefined == [k |-> "undefined"]
JNull == [k |-> "null"]
JBool(b) == [k |-> "bool", bool |-> b]
JNum(a) == [k |-> "num", num |-> a]
JStr(cs) == [k |-> "str", str |-> cs]
JArr(xs) == [k |-> "arr", arr |-> xs]
\* members in text order, each [key |-> codes, val |-> value]
JObj(ms) == [k |-> "obj", obj |-> ms]

-----------------------------------------------------------------------------
(* JSON.parse (lines 50, 352) for the JSON grammar without string escapes   *)
(* and without exponents, which no input of the model contains: a text      *)
(* using either is rejected here.  A parse step returns                     *)
(* [ok, val, next]: next is the index of the first character not consumed.  *)

ParseFail == [ok |-> FALSE, val |-> Undefined, next |-> 0]
ParseOk(v, i) == [ok |-> TRUE, val |-> v, next |-> i]

IsWs(c) == c \in {32, 9, 10, 13}
IsDigit(c) == c >= 48 /\ c <= 57

RECURSIVE SkipWs(_, _)
SkipWs(t, i) == IF i <= Len(t) /\ IsWs(t[i]) THEN SkipWs(t, i + 1) ELSE i

\* the index after the run of digits starting at i
RECURSIVE DigitsEnd(_, _)
DigitsEnd(t, i) == IF i <= Len(t) /\ IsDigit(t[i]) THEN DigitsEnd(t, i + 1) ELSE i

\* the value of the digits t[i .. j-1]
RECURSIVE DigitsValue(_, _, _)
DigitsValue(t, i, j) ==
    IF i >= j THEN 0 ELSE DigitsValue(t, i, j - 1) * 10 + (t[j - 1] - 48)

RECURSIVE Pow10(_)
Pow10(k) == IF k = 0 THEN 1 ELSE 10 * Pow10(k - 1)

\* number = [ "-" ] int [ "." digits ], int without a leading zero
ParseNumber(t, i) ==
    LET neg == t[i] = 45
        a == IF neg THEN i + 1 ELSE i
        b == DigitsEnd(t, a)
        hasFrac == b <= Len(t) /\ t[b] = 46
        c == IF hasFrac THEN DigitsEnd(t, b + 1) ELSE b
        whole == DigitsValue(t, a, b)
        frac == IF hasFrac THEN DigitsValue(t, b + 1, c) ELSE 0
        scale == IF hasFrac THEN Pow10(c - (b + 1)) ELSE 1
        mag == Rat(whole * scale + frac, scale)
    IN  IF b = a \/ (b - a > 1 /\ t[a] = 48) \/ (hasFrac /\ c = b + 1)
        THEN ParseFail
        ELSE ParseOk(JNum(IF neg THEN Neg(mag) ELSE mag), c)

\* the index of the closing quote of the string whose content starts at i,
\* 0 when the string is unterminated or holds a control character or "\"
RECURSIVE StringEnd(_, _)
StringEnd(t, i) ==
    IF i > Len(t) \/ t[i] < 32 \/ t[i] = 92 THEN 0
    ELSE IF t[i] = 34 THEN i
    ELSE StringEnd(t, i + 1)

ParseString(t, i) ==
    LET e == StringEnd(t, i + 1)
    IN  IF e = 0 THEN ParseFail ELSE ParseOk(JStr(SubSeq(t, i + 1, e - 1)), e + 1)

ParseLiteral(t, i, word, v) ==
    IF i + Len(word) - 1 <= Len(t) /\ SubSeq(t, i, i + Len(word) - 1) = word
    THEN ParseOk(v, i + Len(word))
    ELSE ParseFail

RECURSIVE ParseValue(_, _), ParseElements(_, _, _), ParseMembers(_, _, _)

\* a value starting at or after i, leading white space skipped
ParseValue(t, i) ==
    LET j == SkipWs(t, i) IN
    IF j > Len(t) THEN ParseFail
    ELSE IF t[j] = 91 THEN
        LET q == SkipWs(t, j + 1) IN
        IF q <= Len(t) /\ t[q] = 93 THEN ParseOk(JArr(<<>>), q + 1)
        ELSE ParseElements(t, j + 1, <<>>)
    ELSE IF t[j] = 123 THEN
        LET q == SkipWs(t, j + 1) IN
        IF q <= Len(t) /\ t[q] = 125 THEN ParseOk(JObj(<<>>), q + 1)
        ELSE ParseMembers(t, j + 1, <<>>)
    ELSE IF t[j] = 34 THEN ParseString(t, j)
    ELSE IF t[j] = 45 \/ IsDigit(t[j]) THEN ParseNumber(t, j)
    ELSE IF t[j] = 110 THEN ParseLiteral(t, j, Chars("null"), JNull)
    ELSE IF t[j] = 116 THEN ParseLiteral(t, j, Chars("true"), JBool(TRUE))
    ELSE IF t[j] = 102 THEN ParseLiteral(t, j, Chars("false"), JBool(FALSE))
    ELSE ParseFail

\* the elements of an array after "[" or ",", acc the elements so far
ParseElements(t, i, acc) ==
    LET r == ParseValue(t, i) IN
    IF ~r.ok THEN ParseFail
    ELSE LET q == SkipWs(t, r.next)
             xs == Append(acc, r.val)
         IN  IF q > Len(t) THEN ParseFail
             ELSE IF t[q] = 44 THEN ParseElements(t, q + 1, xs)
             ELSE IF t[q] = 93 THEN ParseOk(JArr(xs), q + 1)
             ELSE ParseFail

\* the members of an object after "{" or ",", acc the members so far
ParseMembers(t, i, acc) ==
    LET j == SkipWs(t, i) IN
    IF j > Len(t) \/ t[j] # 34 THEN ParseFail
    ELSE LET key == ParseString(t, j) IN
         IF ~key.ok THEN ParseFail
         ELSE LET c == SkipWs(t, key.next) IN
              IF c > Len(t) \/ t[c] # 58 THEN ParseFail
              ELSE LET r == ParseValue(t, c + 1) IN
                   IF ~r.ok THEN ParseFail
                   ELSE LET q == SkipWs(t, r.next)
                            ms == Append(acc, [key |-> key.val.str, val |-> r.val])
                        IN  IF q > Len(t) THEN ParseFail
                            ELSE IF t[q] = 44 THEN ParseMembers(t, q + 1, ms)
                            ELSE IF t[q] = 125 THEN ParseOk(JObj(ms), q + 1)
                            ELSE ParseFail

\* JSON.parse(text): [ok |-> FALSE] stands for the SyntaxError it throws
JSONparse(t) ==
    LET r == ParseValue(t, 1) IN
    IF r.ok /\ SkipWs(t, r.next) = Len(t) + 1 THEN r ELSE ParseFail

-----------------------------------------------------------------------------
(* parseLssnap (lines 25-54, identical at lines 327-356).  The result is    *)
(* [err |-> "none", vertexCount, positions, colors, annotations] or, when   *)
(* the function throws, [err |-> kind]: "FormatError" is the Error of line  *)
(* 30, "RangeError" the one a DataView read or a typed-array constructor    *)
(* raises.                                                                  *)

Thrown(kind) == [err |-> kind]

\* `offset` at the start of iteration i of the vertex loop (lines 36, 44)
recordOffset(i) == 16 + 9 * i

\* a reading of the coordinates as centimetres
readPositionCentimetres(buf, i, c) ==
    DivBy(Int2Num(getInt16(buf, recordOffset(i) + 2 * c)), 100)

\* lines 38-40: slot c (0, 1, 2) of vertex i
readPosition(buf, i, c) == DivBy(Int2Num(getInt16(buf, recordOffset(i) + 2 * c)), 1000)

\* lines 41-43
readColor(buf, i, c) == DivBy(Int2Num(getUint8(buf, recordOffset(i) + 6 + c)), 255)

\* the arrays the loop of lines 37-45 fills, slot i*3+c at index i*3+c+1
readPositions(buf, vc) ==
    [j \in 1..(3 * vc) |-> readPosition(buf, (j - 1) \div 3, (j - 1) % 3)]

\* colors allocated for one vertex more than the header counts
readColorsPadded(buf, vc) ==
    [j \in 1..(3 * vc + 3) |->
        IF j <= 3 * vc THEN readColor(buf, (j - 1) \div 3, (j - 1) % 3) ELSE Zero]

readColors(buf, vc) ==
    [j \in 1..(3 * vc) |-> readColor(buf, (j - 1) \div 3, (j - 1) % 3)]

\* lines 46-52: the annotation block; every failure inside the try leaves []
parseAnnotations(buf, offset, annotJsonLen) ==
    IF annotJsonLen <= 0 THEN JArr(<<>>)
    ELSE IF ~InBounds(buf, offset, annotJsonLen) THEN JArr(<<>>)
    ELSE LET annotStr == TextDecode(SubSeq(buf, offset + 1, offset + annotJsonLen))
             r == JSONparse(annotStr)
         IN  IF r.ok THEN r.val ELSE JArr(<<>>)

\* the vertex loop reads record i at bytes recordOffset(i) .. recordOffset(i)+8
recordsInBounds(buf, vc) ==
    vc <= 0 \/ (Len(buf) >= 16 /\ vc <= (Len(buf) - 16) \div 9)

\* a decoder that reads the records present when the header counts more,
\* and none when it counts less than zero
parseLssnapClamped(buf) ==
    IF ~InBounds(buf, 0, 4) THEN Thrown("RangeError")
    ELSE IF <<getUint8(buf, 0), getUint8(buf, 1), getUint8(buf, 2)>> # MagicLSS
            \/ getUint8(buf, 3) # 1
    THEN Thrown("FormatError")
    ELSE IF ~InBounds(buf, 4, 8) THEN Thrown("RangeError")
    ELSE \* the count clamped to 0 .. the records present
         LET present == IF Len(buf) < 16 THEN 0 ELSE (Len(buf) - 16) \div 9
             counted == getInt32(buf, 4)
             vertexCount == IF counted < 0 THEN 0
                            ELSE IF counted > present THEN present ELSE counted
         IN  [err |-> "none",
              vertexCount |-> vertexCount,
              positions |-> readPositions(buf, vertexCount),
              colors |-> readColors(buf, vertexCount),
              annotations |-> JArr(<<>>)]

parseLssnap(buf) ==
    IF ~InBounds(buf, 0, 4) THEN Thrown("RangeError")
    ELSE IF <<getUint8(buf, 0), getUint8(buf, 1), getUint8(buf, 2)>> # MagicLSS
            \/ getUint8(buf, 3) # 1
    THEN Thrown("FormatError")
    ELSE IF ~InBounds(buf, 4, 8) THEN Thrown("RangeError")
    ELSE LET vertexCount == getInt32(buf, 4)
             annotJsonLen == getInt32(buf, 8)
         IN  IF vertexCount < 0 THEN Thrown("RangeError")
             ELSE IF ~recordsInBounds(buf, vertexCount) THEN Thrown("RangeError")
             ELSE [err |-> "none",
                   vertexCount |-> vertexCount,
                   positions |-> readPositions(buf, vertexCount),
                   colors |-> readColors(buf, vertexCount),
                   annotations |-> parseAnnotations(buf, recordOffset(vertexCount),
                                                    annotJsonLen)]

\* formatBytes (lines 56-60): the number shown and its unit, the number in
\* tenths for KB and MB (toFixed(1))
formatBytes(bytes) ==
    IF bytes < 1024 THEN [unit |-> "B", value |-> bytes]
    ELSE IF bytes < 1048576 THEN [unit |-> "KB", value |-> (bytes * 10 + 512) \div 1024]
    ELSE [unit |-> "MB", value |-> (bytes * 10 + 524288) \div 1048576]

-----------------------------------------------------------------------------
(* three.js: BufferGeometry.computeBoundingBox, Box3.getCenter, getSize     *)
(* (called at lines 141-146, 175-180 and 460-465, 495-500).  An empty box   *)
(* has min = +Infinity and max = -Infinity; getCenter and getSize of an     *)
(* empty box are the zero vector.                                           *)

VecAdd(a, b) == Vec3(Plus(a[1], b[1]), Plus(a[2], b[2]), Plus(a[3], b[3]))
VecSub(a, b) == Vec3(Minus(a[1], b[1]), Minus(a[2], b[2]), Minus(a[3], b[3]))
VecScale(a, k) == Vec3(Times(a[1], k), Times(a[2], k), Times(a[3], k))

EmptyBox == [min |-> Vec3(PosInf, PosInf, PosInf), max |-> Vec3(NegInf, NegInf, NegInf)]

\* the point of index vi (0-based) of a flat array
pointAt(arr, vi) == Vec3(arr[3 * vi + 1], arr[3 * vi + 2], arr[3 * vi + 3])

expandByPoint(box, p) ==
    [min |-> Vec3(Min2(box.min[1], p[1]), Min2(box.min[2], p[2]), Min2(box.min[3], p[3])),
     max |-> Vec3(Max2(box.max[1], p[1]), Max2(box.max[2], p[2]), Max2(box.max[3], p[3]))]

\* the box of the first k points of a flat position array
RECURSIVE boxOfFirst(_, _)
boxOfFirst(arr, k) ==
    IF k = 0 THEN EmptyBox ELSE expandByPoint(boxOfFirst(arr, k - 1), pointAt(arr, k - 1))

computeBoundingBox(arr) == boxOfFirst(arr, Len(arr) \div 3)

isEmpty(box) ==
    \/ Lt(box.max[1], box.min[1])
    \/ Lt(box.max[2], box.min[2])
    \/ Lt(box.max[3], box.min[3])

getCenter(box) ==
    IF isEmpty(box) THEN VecZero ELSE VecScale(VecAdd(box.min, box.max), Rat(1, 2))

getSize(box) == IF isEmpty(box) THEN VecZero ELSE VecSub(box.max, box.min)

-----------------------------------------------------------------------------
(* The subject filter (orbit viewer lines 138-165, trackball viewer lines   *)
(* 456-481) and the choice of the rendered arrays (lines 164-165, 453-485). *)

\* `fullSize.z * 0.75` (lines 152, 468)
depthFraction == Rat(3, 4)

\* `fullSize.y * 0.45` (line 153), `fullSize.y * 0.5` (line 469)
heightFraction(v) == IF v = "orbit" THEN Rat(9, 20) ELSE Rat(1, 2)

\* the test with the boundary of the x cut left out
keepPointStrict(v, fullBox, p) ==
    /\ Gt(p[1], getCenter(fullBox)[1])
    /\ Leq(p[3], Plus(fullBox.min[3], Times(getSize(fullBox)[3], depthFraction)))
    /\ Geq(p[2], Plus(fullBox.min[2], Times(getSize(fullBox)[2], heightFraction(v))))

\* the test of lines 159, 475 on the point p = <<x, y, z>>
keepPoint(v, fullBox, p) ==
    LET fullCenter == getCenter(fullBox)
        fullSize == getSize(fullBox)
        xCut == fullCenter[1]
        zCut == Plus(fullBox.min[3], Times(fullSize[3], depthFraction))
        yCutMax == Plus(fullBox.min[2], Times(fullSize[2], heightFraction(v)))
    IN  Geq(p[1], xCut) /\ Leq(p[3], zCut) /\ Geq(p[2], yCutMax)

\* the flat array of the points of arr whose (0-based) indices are in kept
gather(arr, kept) ==
    [j \in 1..(3 * Len(kept)) |-> arr[3 * kept[(j - 1) \div 3 + 1] + ((j - 1) % 3) + 1]]

\* lines 139-165 / 458-481: filtPositions, filtColors
subjectFilter(v, d) ==
    LET fullBox == computeBoundingBox(d.positions)
        Keep(vi) == keepPoint(v, fullBox, pointAt(d.positions, vi))
        kept == SelectSeq([i \in 1..d.vertexCount |-> i - 1], Keep)
    IN  [positions |-> gather(d.positions, kept), colors |-> gather(d.colors, kept)]

\* the handler that filters whatever the prop says
filteringAlways(v, f) == TRUE

\* whether the load handler filters: the orbit viewer declares no `filter`
\* prop (lines 6-9, 62) and always filters; the trackball viewer reads
\* `filter = true` (line 364), the default standing in for an absent prop
filtering(v, f) == IF v = "orbit" THEN TRUE ELSE f # "off"

\* the arrays handed to the rendered geometry (lines 167-169, 487-489)
finalArrays(v, f, d) ==
    IF filtering(v, f) THEN subjectFilter(v, d)
    ELSE [positions |-> d.positions, colors |-> d.colors]

-----------------------------------------------------------------------------
(* Camera framing (lines 175-188, 495-508) and the controllers.             *)
(*                                                                         *)
(* A camera position is [v |-> vector, rot |-> k, moved |-> m]: the point  *)
(* v revolved k autorotation steps about the vertical (Y) axis through the  *)
(* controller target and displaced by m pointer gestures.  The step is a    *)
(* fixed small angle (OrbitControls: autoRotateSpeed 0.25, damped;          *)
(* trackball viewer: 0.0005 rad, line 423), so two positions are equal iff  *)
(* v, k and m are.  The camera record holds the position, the up vector as  *)
(* last assigned and `roll`, the number of trackball drags that have turned *)
(* the up vector since.                                                     *)

At(v) == [v |-> v, rot |-> 0, moved |-> 0]

\* one autorotation step: x and z revolve about the target, y is kept; a
\* position at the target does not move (the framing puts the camera on the
\* vertical axis through the target only when it puts it at the target)
rotateAboutY(position, target) ==
    IF position.v[1] = target[1] /\ position.v[3] = target[3] THEN position
    ELSE [position EXCEPT !.rot = @ + 1]

\* position.x, .y, .z (c = 1, 2, 3) of a position: an autorotation step
\* assigns x and z (lines 425-426; OrbitControls turns about +Y, its
\* camera's up) and leaves y, so y does not depend on the steps taken
coordinate(position, c) ==
    [of |-> position.v, axis |-> c, rot |-> IF c = 2 THEN 0 ELSE position.rot,
     moved |-> position.moved]

\* both viewers framing with the offset of the orbit viewer
frameOffsetPolicyA(v) == Vec3(Rat(-1, 10), Rat(1, 4), Rat(8, 5))

\* the camera offsets of lines 184 and 504, in units of maxDim
frameOffset(v) ==
    IF v = "orbit" THEN Vec3(Rat(-1, 10), Rat(1, 4), Rat(8, 5))
    ELSE Vec3(Rat(-1, 2), Rat(-14, 5), Zero)

\* Math.max(size.x, size.y, size.z) (lines 181, 501)
maxDimOf(size) == Max2(Max2(size[1], size[2]), size[3])

\* camera.up after framing: line 503 sets +Z in the trackball viewer only
frameUp(v, up) == IF v = "orbit" THEN up ELSE Vec3(Zero, Zero, Int2Num(1))

\* the framing that falls back to the pose of construction when the box has
\* no extent
framePositionDefaulted(v, center, maxDim) ==
    IF maxDim = Zero THEN At(Vec3(Zero, Int2Num(1), Int2Num(3)))
    ELSE At(VecAdd(center, VecScale(frameOffset(v), maxDim)))

\* the turns of the up vector after framing: `camera.up.set` assigns it anew
frameRoll(v, roll) == IF v = "orbit" THEN roll ELSE 0

\* camera.position.set(...) of lines 184, 504
framePosition(v, center, maxDim) == At(VecAdd(center, VecScale(frameOffset(v), maxDim)))

\* controls.update(): OrbitControls applies one autorotation step while
\* autoRotate is set (lines 106-107) and no pointer is down;
\* TrackballControls without pointer input leaves the position as it is
controlsUpdate(v, position, ctl) ==
    IF v = "orbit" /\ ctl.autoRotate THEN rotateAboutY(position, ctl.target)
    ELSE position

\* the body of `animate` but for the draw (lines 112-116, 415-430)
animate(v, position, ctl, st) ==
    LET spun == IF v = "trackball" /\ st.autoRotating
                THEN rotateAboutY(position, ctl.target)
                ELSE position
    IN  controlsUpdate(v, spun, ctl)

-----------------------------------------------------------------------------
(* JavaScript operations the annotation builder applies to parsed values.   *)

\* the last member of an object named key, Undefined when there is none
RECURSIVE lookup(_, _, _)
lookup(ms, key, i) ==
    IF i = 0 THEN Undefined
    ELSE IF ms[i].key = key THEN ms[i].val
    ELSE lookup(ms, key, i - 1)

\* val.name for a val that is neither null nor undefined, name one of the
\* property names the builder reads (positions, type, radius, color)
Prop(val, name) ==
    IF val.k = "obj" THEN lookup(val.obj, Chars(name), Len(val.obj)) ELSE Undefined

\* val.length
LengthOf(val) ==
    IF val.k = "arr" THEN JNum(Int2Num(Len(val.arr)))
    ELSE IF val.k = "str" THEN JNum(Int2Num(Len(val.str)))
    ELSE IF val.k = "obj" THEN lookup(val.obj, Chars("length"), Len(val.obj))
    ELSE Undefined

\* val[i] for an index i >= 0: an element, a character, else undefined
\* (an object with numeric keys is taken to have none)
Index(val, i) ==
    IF val.k = "arr" /\ i < Len(val.arr) THEN val.arr[i + 1]
    ELSE IF val.k = "str" /\ i < Len(val.str) THEN JStr(<<val.str[i + 1]>>)
    ELSE Undefined

\* ToBoolean
Truthy(val) ==
    CASE val.k = "undefined" -> FALSE
      [] val.k = "null" -> FALSE
      [] val.k = "bool" -> val.bool
      [] val.k = "num" -> ~IsNaN(val.num) /\ val.num # Zero
      [] val.k = "str" -> val.str # <<>>
      [] OTHER -> TRUE

\* ToNumber; a non-empty string, a non-empty array and an object are taken
\* to NaN (numeric strings and one-element arrays are not inputs of the model)
ToNumber(val) ==
    CASE val.k = "num" -> val.num
      [] val.k = "null" -> Zero
      [] val.k = "bool" -> IF val.bool THEN Int2Num(1) ELSE Zero
      [] val.k = "str" -> IF val.str = <<>> THEN Zero ELSE NaN
      [] val.k = "arr" -> IF val.arr = <<>> THEN Zero ELSE NaN
      [] OTHER -> NaN

\* val === 'literal'
IsString(val, literal) == val.k = "str" /\ val.str = Chars(literal)

\* new THREE.Vector3(x, y, z): an undefined argument takes the default 0
Vector3(x, y, z) ==
    LET Arg(a) == IF a.k = "undefined" THEN JNum(Zero) ELSE a
    IN  <<Arg(x), Arg(y), Arg(z)>>

-----------------------------------------------------------------------------
(* The annotation builder (lines 190-229, 510-549).  A primitive is a       *)
(* record: a sphere mesh (point) or a line (circle, freehand).              *)

\* lines 193-196: a color channel
channel(ann, i, default) ==
    LET color == Prop(ann, "color")
    IN  IF Truthy(color) THEN DivBy(ToNumber(Index(color, i)), 255) ELSE default

annColor(ann) ==
    <<channel(ann, 0, Int2Num(1)), channel(ann, 1, Rat(2, 5)), channel(ann, 2, Rat(2, 5))>>

\* a radius that falls back to the default only when none is given
radiusOrAbsent(ann, least, default) ==
    IF Prop(ann, "radius").k = "undefined" THEN default ELSE ToNumber(Prop(ann, "radius"))

\* lines 198, 206: (ann.radius && ann.radius > least) ? ann.radius : default
radiusOr(ann, least, default) ==
    LET radius == Prop(ann, "radius")
    IN  IF Truthy(radius) /\ Gt(ToNumber(radius), least) THEN ToNumber(radius) ELSE default

\* lines 197-204
pointPrimitive(ann) ==
    LET positions == Prop(ann, "positions")
    IN  [kind |-> "sphere",
         radius |-> Times(radiusOr(ann, Rat(1, 100), Rat(3, 25)), Rat(3, 10)),
         position |-> <<Index(positions, 0), Index(positions, 1), Index(positions, 2)>>,
         color |-> annColor(ann)]

\* lines 207-214: point i of the ring, theta = (i / 64) * 2 pi; the point is
\* (cx + cos(theta) * radius, cy + sin(theta) * radius, z), kept symbolic
ringPoint(ann, i) ==
    LET positions == Prop(ann, "positions")
    IN  [cx |-> ToNumber(Index(positions, 0)),
         cy |-> ToNumber(Index(positions, 1)),
         z |-> Index(positions, 2),
         radius |-> radiusOr(ann, Zero, Rat(1, 20)),
         step |-> i]

\* lines 205-218
circlePrimitive(ann) ==
    [kind |-> "line",
     shape |-> "circle",
     pts |-> [j \in 1..65 |-> ringPoint(ann, j - 1)],
     color |-> annColor(ann)]

(* The ring as the line geometry stores it.  theta = (i / 64) * Math.PI * 2  *)
(* is a double, and so are Math.cos(theta) and Math.sin(theta) (fdlibm in   *)
(* V8, SpiderMonkey and JavaScriptCore).  At the quarter turns the results  *)
(* are known: [near |-> c, off |-> 0] is the integer c exactly, and         *)
(* [near |-> 0, off |-> sg] is a double of sign sg and magnitude below      *)
(* 2.5e-16 where the cosine or sine of the real angle is 0 (the double      *)
(* 2 * Math.PI is not the real 2 pi: Math.sin of it is -2.449e-16).         *)

\* Math.cos(theta) of line 210 at a quarter turn, step i of 0, 16 .. 64
turnCos(i) ==
    CASE i \in {0, 64} -> [near |-> Int2Num(1), off |-> 0]
      [] i = 16 -> [near |-> Zero, off |-> 1]
      [] i = 32 -> [near |-> Int2Num(-1), off |-> 0]
      [] i = 48 -> [near |-> Zero, off |-> -1]

\* Math.sin(theta) of line 211 at a quarter turn
turnSin(i) ==
    CASE i = 0 -> [near |-> Zero, off |-> 0]
      [] i = 16 -> [near |-> Int2Num(1), off |-> 0]
      [] i = 32 -> [near |-> Zero, off |-> 1]
      [] i = 48 -> [near |-> Int2Num(-1), off |-> 0]
      [] i = 64 -> [near |-> Zero, off |-> -1]

\* c + t * radius of lines 210-211 as setFromPoints (line 216) stores it in
\* the Float32Array of the geometry: a product below 2.5e-16 * radius is
\* rounded away next to a coordinate c # 0 that is not smaller than the
\* radius by six orders of magnitude, and is the stored value next to c = 0
ringCoord(c, t, radius) ==
    IF t.off = 0 THEN [near |-> Plus(c, Times(t.near, radius)), off |-> 0]
    ELSE IF c # Zero /\ Leq(radius, Times(Int2Num(1000000), IF Leq(Zero, c) THEN c ELSE Neg(c)))
    THEN [near |-> c, off |-> 0]
    ELSE [near |-> c, off |-> t.off * Sign(radius.n)]

\* the stored vertex of the ring point p at a quarter turn
ringVertex(p) ==
    [x |-> ringCoord(p.cx, turnCos(p.step), p.radius),
     y |-> ringCoord(p.cy, turnSin(p.step), p.radius),
     z |-> p.z]

\* lines 220-222: the points pushed for i, i + 3, ... below len
RECURSIVE freehandPts(_, _, _)
freehandPts(positions, i, len) ==
    IF ~Lt(Int2Num(i), len) THEN <<>>
    ELSE <<Vector3(Index(positions, i), Index(positions, i + 1), Index(positions, i + 2))>>
         \o freehandPts(positions, i + 3, len)

\* lines 219-227
freehandPrimitive(ann) ==
    LET positions == Prop(ann, "positions")
    IN  [kind |-> "line",
         shape |-> "freehand",
         pts |-> freehandPts(positions, 0, ToNumber(LengthOf(positions))),
         color |-> annColor(ann)]

\* the guard of line 219 on positions.length
freehandLongEnough(positions) == Geq(ToNumber(LengthOf(positions)), Int2Num(6))

\* one iteration of the loop of lines 191-228 for an element that is neither
\* null nor undefined: the primitives it adds to annGroup
annPrimitives(ann) ==
    LET positions == Prop(ann, "positions")
        type == Prop(ann, "type")
    IN  IF ~Truthy(positions) \/ Lt(ToNumber(LengthOf(positions)), Int2Num(3)) THEN <<>>
        ELSE IF IsString(type, "point") THEN <<pointPrimitive(ann)>>
        ELSE IF IsString(type, "circle") THEN <<circlePrimitive(ann)>>
        ELSE IF IsString(type, "freehand") /\ freehandLongEnough(positions)
             THEN <<freehandPrimitive(ann)>>
        ELSE <<>>

\* `for (const ann of annotations)`: the values iterated, or the TypeError
\* thrown for a value that is not iterable
iterate(annotations) ==
    IF annotations.k = "arr" THEN [err |-> "none", items |-> annotations.arr]
    ELSE IF annotations.k = "str"
    THEN [err |-> "none",
          items |-> [i \in 1..Len(annotations.str) |-> JStr(<<annotations.str[i]>>)]]
    ELSE [err |-> "TypeError", items |-> <<>>]

\* the loop over items[i ..], prims the children of annGroup so far; reading
\* `ann.positions` of null throws a TypeError (line 192)
RECURSIVE buildFrom(_, _, _)
buildFrom(items, i, prims) ==
    IF i > Len(items) THEN [err |-> "none", prims |-> prims]
    ELSE IF items[i].k \in {"null", "undefined"} THEN [err |-> "TypeError", prims |-> prims]
    ELSE buildFrom(items, i + 1, prims \o annPrimitives(items[i]))

\* lines 190-228
buildAnnotations(annotations) ==
    LET it == iterate(annotations)
    IN  IF it.err # "none" THEN [err |-> it.err, prims |-> <<>>]
        ELSE buildFrom(it.items, 1, <<>>)

-----------------------------------------------------------------------------
(* The input buffers of the model.  A vertex is <<x, y, z, r, g, b>> with    *)
(* x, y, z in millimetres (the stored int16) and r, g, b bytes.              *)

\* two vertices that pin the bounding box to [0, 10 m] on every axis
Anchor0 == <<0, 0, 0, 10, 20, 30>>
Anchor1 == <<10000, 10000, 10000, 255, 255, 255>>

\* vertices on, inside and outside the three cuts of both viewers
FreePoints ==
    { <<x, y, z, x \div 50, y \div 50, z \div 50>> :
        x \in {4999, 5000}, y \in {4499, 4500, 5000}, z \in {7500, 7501} }

GridClouds ==
    { <<Anchor0>> \o fs \o <<Anchor1>> :
        fs \in UNION { [1..k -> FreePoints] : k \in 0..MaxFree } }

\* the snapshot of the round-trip example of the spec (section 8)
RoundTripCloud == << <<1000, 2000, -3000, 255, 0, 0>>, <<0, 0, 0, 0, 255, 0>> >>

\* a cloud whose filtered subset is the unit box centred at the origin
UnitBoxCloud ==
    << <<-500, -500, -500, 1, 2, 3>>, <<500, 500, 500, 4, 5, 6>>,
       <<-1500, -1500, 1500, 7, 8, 9>> >>

SpecialClouds ==
    { <<>>,
      << <<1000, 2000, -3000, 255, 0, 0>> >>,
      << <<40, 50, 60, 1, 1, 1>>, <<40, 50, 60, 2, 2, 2>> >>,
      << <<0, 0, 0, 9, 9, 9>>, <<-10, -10, 10, 8, 8, 8>> >>,
      << <<32767, -32768, -1, 0, 128, 255>>, <<-32768, 32767, 256, 255, 1, 0>> >>,
      RoundTripCloud,
      UnitBoxCloud }

Clouds == GridClouds \cup SpecialClouds

\* a well-formed buffer: the cloud, then the annotation text, alen declared
SnapBuffer(cloud, text, alen) ==
    Header(MagicLSS, 1, Len(cloud), alen) \o VertexRecords(cloud) \o text

CloudBuffers == { SnapBuffer(c, <<>>, 0) : c \in Clouds }

\* annotation texts: lists of records, lists with elements that are no
\* records, values that are no lists, and malformed texts
AnnotTexts ==
    { "[]",
      "[{'type':'point','positions':[1,2,3]}]",
      "[{'type':'point','positions':[1,2,3],'radius':0.5,'color':[255,0,51]}]",
      "[{'type':'circle','positions':[0,0,0]}]",
      "[{'type':'circle','positions':[1,2,3],'radius':0}]",
      "[{'type':'circle','positions':[1,2,3],'radius':-1}]",
      "[{'type':'circle','positions':[1,2,3],'radius':0.25}]",
      "[{'type':'freehand','positions':[1,2]},{'type':'circle','positions':[0,0,0]}]",
      "[{'type':'freehand','positions':[0,0,0,1,1,1]}]",
      "[{'type':'freehand','positions':[0,0,0,1,1,1,2]}]",
      "[{'type':'freehand','positions':[0,0,0,1,1]},{'type':'point','positions':[1,2,3]}]",
      "[{'type':'freehand','positions':[0,0,0,1,1,1,2,2,2]},{'type':'point','positions':[4,5,6]}]",
      "[null,{'type':'point','positions':[1,2,3]}]",
      "[{'type':'point','positions':[1,2,3]},null]",
      "[5,'ab',[1],{'type':'blob','positions':[1,2,3]},{'type':'point'},{'type':'point','positions':[7,8,9]}]",
      "[{'type':'point','positions':7}]",
      " [ ] ",
      "{}",
      "{'type':'point','positions':[1,2,3]}",
      "7",
      "null",
      "true",
      "'ab'",
      "[1,]",
      "[{'type':",
      "x" }

\* for each text: the declared length exact, one byte short (a truncated
\* text), one byte past the end of the buffer, zero and negative
AnnotBuffers ==
    { SnapBuffer(RoundTripCloud, Chars(t), Len(t) + dl) : t \in AnnotTexts, dl \in {0, -1, 1} }
    \cup { SnapBuffer(RoundTripCloud, Chars("[]"), alen) : alen \in {0, -1, 1000} }
    \cup { SnapBuffer(RoundTripCloud, <<91, 200, 93>>, 3) }

\* headers that fail the magic / version test, over three different bodies
BadHeaders ==
    { <<m[1], m[2], m[3], ver>> :
        m \in { MagicLSS, <<76, 83, 84>>, <<108, 115, 115>>, <<83, 83, 76>>, <<0, 83, 83>> },
        ver \in {0, 1, 2, 255} } \ { MagicLSS \o <<1>> }

BadHeaderBuffers ==
    { h \o rest : h \in BadHeaders,
                  rest \in { <<>>,
                             SubSeq(SnapBuffer(RoundTripCloud, Chars("[]"), 2), 5, 36),
                             <<255, 255, 255, 255, 1, 2, 3>> } }

\* prefixes of a well-formed buffer, and headers whose vertexCount does not
\* match the records present
Whole == SnapBuffer(RoundTripCloud, Chars("[]"), 2)

TruncatedBuffers ==
    { SubSeq(Whole, 1, n) : n \in 0..(Len(Whole) - 1) }
    \cup { Header(MagicLSS, 1, vc, 0) \o VertexRecords(RoundTripCloud) : vc \in {-1, 3, 1000, 1} }
    \cup { SubSeq(Header(MagicLSS, 1, 0, al), 1, 12) : al \in {0, 5} }

Buffers == CloudBuffers \cup AnnotBuffers \cup BadHeaderBuffers \cup TruncatedBuffers

-----------------------------------------------------------------------------
(* The viewer: one mounted component and the fetch pipeline of its effect.  *)

Variants == {"orbit", "trackball"}

\* the `filter` prop as the parent passes it
FilterOpts == {"absent", "on", "off"}

\* the text of the status element: line 281 / 600, and lines 238 / 558
LoadingText == "Loading point cloud"
errorText(kind) ==
    CASE kind = "FormatError" -> "Error: Not a valid .lssnap file"
      [] kind = "RangeError" -> "Error: RangeError"
      [] kind = "TypeError" -> "Error: TypeError"
      [] kind = "http" -> "Error: HTTP status"
      [] OTHER -> "Error: Failed to fetch"

NoPoints == [present |-> FALSE, positions |-> <<>>, colors |-> <<>>]
NoGroup == [present |-> FALSE, prims |-> <<>>]
NoStats == [set |-> FALSE]
NoData == [err |-> "pending"]

\* controls as constructed (lines 103-108, 406-411); autoRotate is a field
\* of OrbitControls only
newControls(v) == [target |-> VecZero, autoRotate |-> v = "orbit"]

\* stateRef.current as created (lines 74, 377): no material, no initial pose
newState ==
    [material |-> FALSE, autoRotating |-> TRUE, darkBg |-> FALSE,
     initialSet |-> FALSE, initialPos |-> At(VecZero), initialTarget |-> VecZero,
     animId |-> 0]

\* the calls one invocation of `animate` makes, in order (lines 112-116,
\* 415-430)
animateCalls(v, st) ==
    <<"requestAnimationFrame">>
    \o (IF v = "trackball" /\ st.autoRotating THEN <<"autoRotate">> ELSE <<>>)
    \o <<"controls.update", "renderer.render">>

\* the record of a callback run: the session whose closure ran, whether
\* that session was live, the calls made and what `renderer.render(scene,
\* camera)` draws of the scene sc
ran(kind, n, live, calls, sc) ==
    [kind |-> kind, session |-> n, live |-> live, calls |-> calls,
     saw |-> [points |-> sc.points.present, overlay |-> sc.annGroup.present]]

\* the camera of a new session (lines 93-94) after the `animate()` call of
\* lines 117, 431
mountCamera(v, st) ==
    [position |-> animate(v, At(Vec3(Zero, Int2Num(1), Int2Num(3))), newControls(v), st),
     up |-> Vec3(Zero, Int2Num(1), Zero),
     roll |-> 0]

emptyScene == [points |-> NoPoints, annGroup |-> NoGroup]

\* the state when the effect has run (lines 84-128, 387-443): camera at
\* (0, 1, 3) with the default up +Y, the first `animate()` call made (lines
\* 117, 431), the fetch issued
\* a page that shows the viewer has no hero canvas
NoHero == [type |-> "none"]

Mount(sources) ==
    /\ variant \in Variants
    /\ filterOpt \in FilterOpts
    /\ buffer \in sources
    /\ pc = "fetching"
    /\ data = NoData
    /\ scene = emptyScene
    /\ controls = newControls(variant)
    /\ s = [newState EXCEPT !.animId = 1]
    /\ camera = mountCamera(variant, newState)
    /\ dom = [statusText |-> LoadingText, statusShown |-> TRUE, uiShown |-> FALSE,
              stats |-> NoStats]
    /\ frames = 0
    /\ session = [n |-> 1, live |-> TRUE, fetches |-> 1]
    /\ win = [raf |-> {[session |-> 1, id |-> 1]}, resize |-> {1}, nextId |-> 2]
    /\ stale = <<>>
    /\ log = ran("frame", 1, TRUE, animateCalls(variant, newState), emptyScene)
    /\ released = {}
    /\ hero = NoHero

Init == Mount(Buffers)

\* `if (xRef.current) xRef.current... = ...` (lines 231-238, 551-558): the
\* refs of the component are null once it is unmounted
refWrite(new) == IF session.live THEN new ELSE dom

\* the first `.then` (lines 129-133, 444-448) for a response that is ok, or
\* the `.catch` (lines 237-239, 557-559) for a response that is not ok
\* ("http") or a fetch that rejects ("network")
Response(outcome) ==
    /\ pc = "fetching"
    /\ IF outcome = "ok"
       THEN pc' = "response" /\ dom' = dom
       ELSE pc' = "error" /\ dom' = refWrite([dom EXCEPT !.statusText = errorText(outcome)])
    /\ UNCHANGED <<hero, variant, filterOpt, buffer, data, scene, camera, controls, s, frames>>
    /\ UNCHANGED host

\* lines 175-188 / 495-508 on the rendered arrays fin: the controller with
\* its new target, the camera position after `controls.update()`
framed(v, ctl, center, maxDim) ==
    [controls |-> [ctl EXCEPT !.target = center],
     position |-> controlsUpdate(v, framePosition(v, center, maxDim),
                                 [ctl EXCEPT !.target = center])]

frameBox(v, ctl, box) == framed(v, ctl, getCenter(box), maxDimOf(getSize(box)))

\* what the load handler (lines 134-236, 449-556) computes from the decoded
\* data d before it touches the DOM
sceneOf(v, ctl, d, fin) ==
    [points |-> [present |-> TRUE, positions |-> fin.positions, colors |-> fin.colors],
     frame |-> frameBox(v, ctl, computeBoundingBox(fin.positions)),
     built |-> buildAnnotations(d.annotations)]

loadScene(v, f, d, ctl) == sceneOf(v, ctl, d, finalArrays(v, f, d))

\* lines 231-235 / 551-555
loadedDom(d, byteLength) ==
    [statusText |-> dom.statusText,
     statusShown |-> FALSE,
     uiShown |-> TRUE,
     stats |-> [set |-> TRUE,
                verts |-> d.vertexCount,
                annots |-> LengthOf(d.annotations),
                size |-> formatBytes(byteLength)]]

\* the camera cam after lines 184-186 / 503-506
posed(cam, r) ==
    [position |-> r.frame.position,
     up |-> frameUp(variant, cam.up),
     roll |-> frameRoll(variant, cam.roll)]

\* stateRef.current after lines 172, 187-188 / 492, 507-508
remembered(r) ==
    [s EXCEPT !.material = TRUE, !.initialSet = TRUE,
              !.initialPos = r.frame.position,
              !.initialTarget = r.frame.controls.target]

\* the scene sc after lines 173, 229 / 493, 549: the overlay group is added
\* only when the annotation loop has not thrown
filled(sc, r) ==
    IF r.built.err = "none"
    THEN [points |-> r.points, annGroup |-> [present |-> TRUE, prims |-> r.built.prims]]
    ELSE [sc EXCEPT !.points = r.points]

\* the load handler once parseLssnap returned d and the scene r was
\* computed: a throw of the annotation loop comes after the points, the
\* camera pose and the stored initial pose were installed
install(d, r) ==
    /\ camera' = posed(camera, r)
    /\ controls' = r.frame.controls
    /\ s' = remembered(r)
    /\ scene' = filled(scene, r)
    /\ IF r.built.err = "none"
       THEN /\ pc' = "loaded"
            /\ dom' = refWrite(loadedDom(d, Len(buffer)))
       ELSE /\ pc' = "error"
            /\ dom' = refWrite([dom EXCEPT !.statusText = errorText(r.built.err)])

\* the load handler with its `.catch`, d the outcome of parseLssnap: a
\* throw of parseLssnap leaves everything but the status text
loadWith(d) ==
    /\ data' = d
    /\ IF d.err # "none"
       THEN /\ pc' = "error"
            /\ dom' = refWrite([dom EXCEPT !.statusText = errorText(d.err)])
            /\ UNCHANGED <<scene, camera, controls, s>>
       ELSE install(d, loadScene(variant, filterOpt, d, controls))

\* the second `.then` with its `.catch` (lines 134-239, 449-559): decode,
\* filter, frame, build the overlay, update the DOM
Load ==
    /\ pc = "response"
    /\ loadWith(parseLssnap(buffer))
    /\ UNCHANGED <<hero, variant, filterOpt, buffer, frames>>
    /\ UNCHANGED host

\* a window that runs a callback and keeps it on its list
rescheduleKeeping(cb) ==
    /\ win' = [win EXCEPT !.raf = @ \cup {[session |-> cb.session, id |-> win.nextId]},
                           !.nextId = @ + 1]
    /\ s' = [s EXCEPT !.animId = win.nextId]

\* the window takes the callback cb off its list and the callback schedules
\* the next one (lines 113, 416): `s.animId` is its id
reschedule(cb) ==
    /\ win' = [win EXCEPT !.raf = (@ \ {cb}) \cup {[session |-> cb.session, id |-> win.nextId]},
                           !.nextId = @ + 1]
    /\ s' = [s EXCEPT !.animId = win.nextId]

\* `animate` of the current session
frameCurrent(cb) ==
    /\ camera' = [camera EXCEPT !.position = animate(variant, @, controls, s)]
    /\ log' = ran("frame", cb.session, session.live, animateCalls(variant, s), scene)
    /\ UNCHANGED stale

\* `animate` of the closure of a session torn down before: its controller
\* update acts on its own camera, the synthetic step of the trackball
\* viewer on `s.camera`, the camera of the current session
frameStale(cb) ==
    /\ stale' = [stale EXCEPT ![cb.session].camera.position =
                     controlsUpdate(variant, @, stale[cb.session].controls)]
    /\ camera' = [camera EXCEPT !.position =
                     IF variant = "trackball" /\ s.autoRotating
                     THEN rotateAboutY(@, controls.target) ELSE @]
    /\ log' = ran("frame", cb.session, FALSE, animateCalls(variant, s),
                  stale[cb.session].scene)

\* one animation frame (lines 112-116, 415-430): the window runs a pending
\* callback
Frame ==
    /\ frames < MaxFrames
    /\ frames' = frames + 1
    /\ \E cb \in win.raf :
        /\ reschedule(cb)
        /\ IF cb.session = session.n THEN frameCurrent(cb) ELSE frameStale(cb)
    /\ UNCHANGED <<hero, variant, filterOpt, buffer, pc, data, scene, controls, dom>>
    /\ UNCHANGED <<session, released>>

Next ==
    \/ \E outcome \in {"ok", "http", "network"} : Response(outcome)
    \/ Load
    \/ Frame

Spec == Init /\ [][Next]_vars

-----------------------------------------------------------------------------
(* The life of the component: pointer input, the buttons, resize, a change  *)
(* of `src` / `filter` (cleanup, then the effect again), unmount, and the   *)
(* fetches of sessions torn down before they resolved.  stateRef.current    *)
(* and the DOM elements belong to the component and outlive a session; the  *)
(* scene, camera, renderer and controller are made anew by every run of the *)
(* effect.                                                                  *)

\* a drag or a wheel turn on the canvas, applied by the controller: both
\* move the camera; a drag in TrackballControls also turns camera.up
\* (rotateCamera applies the rotation to the eye and to object.up).  A
\* camera at its target has no direction to turn or to zoom along.
Pointer(gesture) ==
    /\ session.live
    /\ camera.position.moved < MaxGestures
    /\ camera.roll < MaxGestures
    /\ camera.position.v # controls.target
    /\ camera' = [camera EXCEPT
                    !.position.moved = @ + 1,
                    !.roll = IF variant = "trackball" /\ gesture = "drag" THEN @ + 1 ELSE @]
    /\ UNCHANGED <<hero, variant, filterOpt, buffer, pc, data, scene, controls, s, dom, frames>>
    /\ UNCHANGED host

\* handleReset (lines 260-267, 581-588), reached through the button of the
\* controls element
Reset ==
    /\ session.live
    /\ dom.uiShown
    /\ IF s.initialSet
       THEN /\ controls' = [controls EXCEPT !.target = s.initialTarget]
            /\ camera' = [camera EXCEPT !.position =
                            controlsUpdate(variant, s.initialPos,
                                           [controls EXCEPT !.target = s.initialTarget])]
       ELSE UNCHANGED <<camera, controls>>
    /\ log' = ran("reset", session.n, session.live, <<"controls.update">>, scene)
    /\ UNCHANGED <<hero, variant, filterOpt, buffer, pc, data, scene, s, dom, frames>>
    /\ UNCHANGED <<session, win, stale, released>>

\* handleAutoRotate (lines 269-276, 590-595)
ToggleAutoRotate ==
    /\ session.live
    /\ dom.uiShown
    /\ IF variant = "orbit"
       THEN controls' = [controls EXCEPT !.autoRotate = ~@] /\ s' = s
       ELSE s' = [s EXCEPT !.autoRotating = ~@] /\ controls' = controls
    /\ UNCHANGED <<hero, variant, filterOpt, buffer, pc, data, scene, camera, dom, frames>>
    /\ UNCHANGED host

\* a resize event of the window: every registered onResize runs (lines
\* 119-125, 433-440)
Resize ==
    /\ \E n \in win.resize :
        log' = ran("resize", n, n = session.n /\ session.live, <<"renderer.setSize">>, scene)
    /\ UNCHANGED <<hero, variant, filterOpt, buffer, pc, data, scene, camera, controls, s, dom, frames>>
    /\ UNCHANGED <<session, win, stale, released>>

\* a cleanup that leaves the pending animation frame in place
uncancelled(w, id) == w.raf

\* cancelAnimationFrame(id) on the window w
cancelled(w, id) == {cb \in w.raf : cb.id # id}

\* the cleanup of the effect (lines 241-246, 561-567) on the window
cleanedUp(w) ==
    [w EXCEPT !.raf = IF s.animId # 0 THEN cancelled(w, s.animId) ELSE @,
              !.resize = @ \ {session.n}]

\* the resources the cleanup disposes of
disposed ==
    {<<session.n, "renderer">>}
    \cup (IF variant = "trackball" THEN {<<session.n, "controls">>} ELSE {})

\* the component is removed: the cleanup runs, the refs become null
Unmount ==
    /\ session.live
    /\ session' = [session EXCEPT !.live = FALSE]
    /\ win' = cleanedUp(win)
    /\ released' = released \cup disposed
    /\ UNCHANGED <<hero, variant, filterOpt, buffer, pc, data, scene, camera, controls, s, dom, frames>>
    /\ UNCHANGED <<stale, log>>

\* `src` (or, in the trackball viewer, `filter`) changes: the cleanup of the
\* session runs, then the effect again (lines 84-128, 387-443) with the new
\* source; the fetch of the old session stays in flight
Remount(src, f) ==
    /\ session.live
    /\ session.n < MaxSessions
    /\ stale' = Append(stale, [filterOpt |-> filterOpt, buffer |-> buffer, pc |-> pc,
                               scene |-> scene, camera |-> camera, controls |-> controls,
                               tornAt |-> pc])
    /\ released' = released \cup disposed
    /\ session' = [n |-> session.n + 1, live |-> TRUE, fetches |-> 1]
    /\ win' = [raf |-> cleanedUp(win).raf \cup {[session |-> session.n + 1, id |-> win.nextId]},
               resize |-> cleanedUp(win).resize \cup {session.n + 1},
               nextId |-> win.nextId + 1]
    /\ buffer' = src
    /\ filterOpt' = IF variant = "trackball" THEN f ELSE filterOpt
    /\ pc' = "fetching"
    /\ data' = NoData
    /\ scene' = emptyScene
    /\ camera' = mountCamera(variant, s)
    /\ controls' = newControls(variant)
    /\ s' = [s EXCEPT !.animId = win.nextId]
    /\ log' = ran("frame", session.n + 1, TRUE, animateCalls(variant, s), emptyScene)
    /\ UNCHANGED <<hero, variant, dom, frames>>

\* the fetch of the torn-down session k settles: the first `.then` or the
\* `.catch` of its closure
StaleResponse(outcome) ==
    /\ \E k \in DOMAIN stale :
        /\ stale[k].pc = "fetching"
        /\ IF outcome = "ok"
           THEN stale' = [stale EXCEPT ![k].pc = "response"] /\ dom' = dom
           ELSE /\ stale' = [stale EXCEPT ![k].pc = "error"]
                /\ dom' = refWrite([dom EXCEPT !.statusText = errorText(outcome)])
    /\ UNCHANGED <<hero, variant, filterOpt, buffer, pc, data, scene, camera, controls, s, frames>>
    /\ UNCHANGED <<session, win, log, released>>

\* the load handler of the torn-down session k on its own scene, camera and
\* controller, on the stateRef and the elements of the component
staleInstall(k, d, r) ==
    /\ stale' = [stale EXCEPT ![k].camera = posed(@, r),
                              ![k].controls = r.frame.controls,
                              ![k].scene = filled(@, r),
                              ![k].pc = IF r.built.err = "none" THEN "loaded" ELSE "error"]
    /\ s' = remembered(r)
    /\ dom' = refWrite(IF r.built.err = "none"
                       THEN loadedDom(d, Len(stale[k].buffer))
                       ELSE [dom EXCEPT !.statusText = errorText(r.built.err)])

staleLoadWith(k, d) ==
    IF d.err # "none"
    THEN /\ stale' = [stale EXCEPT ![k].pc = "error"]
         /\ dom' = refWrite([dom EXCEPT !.statusText = errorText(d.err)])
         /\ s' = s
    ELSE staleInstall(k, d, loadScene(variant, stale[k].filterOpt, d, stale[k].controls))

\* the second `.then` of the torn-down session k with its `.catch`
StaleLoad ==
    /\ \E k \in DOMAIN stale :
        /\ stale[k].pc = "response"
        /\ staleLoadWith(k, parseLssnap(stale[k].buffer))
    /\ UNCHANGED <<hero, variant, filterOpt, buffer, pc, data, scene, camera, controls, frames>>
    /\ UNCHANGED <<session, win, log, released>>

\* sources of the component: a unit box with a point annotation, a file of
\* the wrong magic, a cloud whose annotation list starts with null
LiveBuffers ==
    { SnapBuffer(UnitBoxCloud, Chars("[{'type':'point','positions':[1,2,3]}]"), 38),
      Header(<<76, 83, 88>>, 1, 0, 0),
      SnapBuffer(RoundTripCloud, Chars("[null,{'type':'point','positions':[1,2,3]}]"), 43) }

\* a mounted viewer in use: the pipeline, the frames, the pointer and the
\* buttons
NextUse ==
    \/ Next
    \/ \E gesture \in {"drag", "zoom"} : Pointer(gesture)
    \/ Reset
    \/ ToggleAutoRotate

Use == Mount(LiveBuffers) /\ [][NextUse]_vars

\* the sessions of a component: the pipeline, the frames, resize, reset,
\* a change of source, unmount and the fetches left in flight
NextLive ==
    \/ Next
    \/ Reset
    \/ Resize
    \/ Unmount
    \/ \E src \in LiveBuffers, f \in FilterOpts : Remount(src, f)
    \/ \E outcome \in {"ok", "http", "network"} : StaleResponse(outcome)
    \/ StaleLoad

Live == Mount(LiveBuffers) /\ [][NextLive]_vars

-----------------------------------------------------------------------------
(* Claims about the decoder.  `data` is what parseLssnap made of `buffer`   *)
(* once the load handler has run; before that data.err = "pending".         *)

decoded == data.err = "none"
rejected == data.err \in {"FormatError", "RangeError"}

\* the four header bytes that are accepted
LSS1 == <<76, 83, 83, 1>>

\* C1: for every input buffer, decode fails with the format error whenever
\* bytes 0-2 are not "LSS" or byte 3 is not 1, whatever the rest of the buffer
\* is, and never fails with the format error when the buffer starts with
\* "LSS" followed by 1.
C1_FormatErrorIffBadHeader ==
    (decoded \/ rejected) =>
        (data.err = "FormatError" <=> ~(Len(buffer) >= 4 /\ SubSeq(buffer, 1, 4) = LSS1))

\* C1: the input on which the claim fails: a buffer too short to hold the
\* four bytes makes the first reads throw a RangeError
C1_ShortBufferRangeError ==
    Len(buffer) < 4 /\ data.err = "RangeError" /\ pc = "error"

\* C2: every snapshot decode returns has as many position values as color
\* values, 3 x vertexCount of each, vertexCount being the int32 of header
\* bytes 4-7 and not a number derived from the length of the buffer.
C2_LengthsAgree ==
    decoded =>
        /\ Len(data.positions) = 3 * data.vertexCount
        /\ Len(data.colors) = 3 * data.vertexCount
        /\ LE32(data.vertexCount) = SubSeq(buffer, 5, 8)

\* C2: a snapshot decoded from a buffer that holds more records than its
\* header counts
C2_HeaderCountUsed ==
    decoded /\ data.vertexCount = 1 /\ Len(buffer) = 16 + 9 * 2

\* the signed value of two little-endian bytes
Signed16(lo, hi) == IF hi >= 128 THEN lo + 256 * hi - 65536 ELSE lo + 256 * hi

\* the stored bytes of a decoded vertex: millimetres and color bytes
Requantize(positions, colors, i) ==
    <<Times(positions[3 * i + 1], Int2Num(1000)).n,
      Times(positions[3 * i + 2], Int2Num(1000)).n,
      Times(positions[3 * i + 3], Int2Num(1000)).n,
      Times(colors[3 * i + 1], Int2Num(255)).n,
      Times(colors[3 * i + 2], Int2Num(255)).n,
      Times(colors[3 * i + 3], Int2Num(255)).n>>

\* C3: for every valid buffer and every i < vertexCount, slots 3i .. 3i+2 hold
\* the three little-endian int16 of bytes 16+9i .. 16+9i+5 divided by 1000 and
\* the three uint8 of bytes 16+9i+6 .. 16+9i+8 divided by 255; encoding the
\* decoded values again gives the bytes of the record, and the snapshot of
\* the round-trip example decodes to (1, 2, -3), (0, 0, 0) with colors
\* (1, 0, 0), (0, 1, 0).
C3_RecordLayout ==
    decoded =>
        /\ \A i \in 0..(data.vertexCount - 1) :
            /\ \A c \in 0..2 :
                /\ data.positions[3 * i + c + 1]
                     = Rat(Signed16(buffer[16 + 9 * i + 2 * c + 1],
                                    buffer[16 + 9 * i + 2 * c + 2]), 1000)
                /\ data.colors[3 * i + c + 1] = Rat(buffer[16 + 9 * i + 6 + c + 1], 255)
            /\ VertexRecord(Requantize(data.positions, data.colors, i))
                 = SubSeq(buffer, 16 + 9 * i + 1, 16 + 9 * i + 9)
        /\ buffer = SnapBuffer(RoundTripCloud, <<>>, 0) =>
            /\ data.positions = <<Int2Num(1), Int2Num(2), Int2Num(-3), Zero, Zero, Zero>>
            /\ data.colors = <<Int2Num(1), Zero, Zero, Zero, Int2Num(1), Zero>>

\* C3: a decoded snapshot of two records with a negative coordinate and the
\* extreme int16 values
C3_ExtremesDecoded ==
    /\ decoded
    /\ data.vertexCount = 2
    /\ data.positions[1] = Rat(32767, 1000)
    /\ data.positions[2] = Rat(-32768, 1000)
    /\ data.positions[3] = Rat(-1, 1000)
    /\ data.colors[6] = Zero

-----------------------------------------------------------------------------
(* Claims about the annotation block and the overlay.                       *)

\* the load handler has run to its end or to its `.catch`
settled == pc \in {"loaded", "error"}

\* the annotation block as the header declares it
blockLen == getInt32(buffer, 8)
blockStart == 16 + 9 * data.vertexCount
blockParse ==
    IF blockLen > 0 /\ blockStart + blockLen <= Len(buffer)
    THEN JSONparse(TextDecode(SubSeq(buffer, blockStart + 1, blockStart + blockLen)))
    ELSE ParseFail
blockIsList == blockParse.ok /\ blockParse.val.k = "arr"

\* C4: when annotationBlockLength > 0 and the block cannot be parsed as a
\* list (malformed text, a length running past the end of the buffer, or
\* well-formed text that is no list), decode returns the empty annotation
\* list with the point cloud, and the load installs the point cloud and
\* shows no error.
C4_BadBlockDegradesToEmptyList ==
    (decoded /\ settled /\ blockLen > 0 /\ ~blockIsList) =>
        /\ data.annotations = JArr(<<>>)
        /\ pc = "loaded"
        /\ scene.points.present
        /\ dom.statusText = LoadingText

\* C4: the input on which the claim fails: the block is the well-formed text
\* of an object; decode returns the object and the annotation loop throws
\* after the points were added
C4_ObjectBlockShowsError ==
    /\ decoded
    /\ blockParse.ok
    /\ data.annotations = JObj(<<>>)
    /\ pc = "error"
    /\ scene.points.present
    /\ ~scene.annGroup.present
    /\ dom.statusText = errorText("TypeError")

\* the shape constraints of an annotation record (spec section 3)
IsNumberList(val) == val.k = "arr" /\ \A j \in 1..Len(val.arr) : val.arr[j].k = "num"
IsRecord(ann) == ann.k = "obj"
KindOf(ann) ==
    IF ~IsRecord(ann) THEN "none"
    ELSE IF IsString(Prop(ann, "type"), "point") THEN "point"
    ELSE IF IsString(Prop(ann, "type"), "circle") THEN "circle"
    ELSE IF IsString(Prop(ann, "type"), "freehand") THEN "freehand"
    ELSE "none"
PositionsLen(ann) ==
    IF IsRecord(ann) /\ IsNumberList(Prop(ann, "positions"))
    THEN Len(Prop(ann, "positions").arr) ELSE -1
ValidFreehand(ann) ==
    KindOf(ann) = "freehand" /\ PositionsLen(ann) >= 6 /\ PositionsLen(ann) % 3 = 0
ValidAnnotation(ann) ==
    \/ KindOf(ann) \in {"point", "circle"} /\ PositionsLen(ann) >= 3
    \/ ValidFreehand(ann)

\* the kind of annotation a primitive draws
DrawnKind(prim) == IF prim.kind = "sphere" THEN "point" ELSE prim.shape

KindsOf(anns) == [j \in 1..Len(anns) |-> KindOf(anns[j])]
DrawnKinds(prims) == [j \in 1..Len(prims) |-> DrawnKind(prims[j])]

\* C9: overlay construction over any decoded annotation list never raises
\* and never aborts: the elements of the wrong shape or kind contribute no
\* primitive, and every valid record of the list contributes exactly one, in
\* input order.
C9_BuildNeverAborts ==
    (decoded /\ settled /\ data.annotations.k = "arr") =>
        /\ pc = "loaded"
        /\ scene.annGroup.present
        /\ DrawnKinds(scene.annGroup.prims)
             = KindsOf(SelectSeq(data.annotations.arr, ValidAnnotation))

\* C9: the input on which the claim fails: a list whose first element is
\* null and whose second is a valid point; the loop throws on the first and
\* the overlay is never added
C9_NullElementAborts ==
    /\ decoded
    /\ data.annotations.k = "arr"
    /\ Len(data.annotations.arr) = 2
    /\ data.annotations.arr[1] = JNull
    /\ ValidAnnotation(data.annotations.arr[2])
    /\ pc = "error"
    /\ ~scene.annGroup.present
    /\ dom.statusText = errorText("TypeError")

IsFreehandLine(prim) == prim.kind = "line" /\ prim.shape = "freehand"
NotFreehandLine(prim) == ~IsFreehandLine(prim)
NotFreehandRecord(ann) == KindOf(ann) # "freehand"
PointCounts(prims) == [j \in 1..Len(prims) |-> Len(prims[j].pts)]
PointsHeld(anns) == [j \in 1..Len(anns) |-> PositionsLen(anns[j]) \div 3]

\* C10: a freehand annotation contributes one polyline through all its
\* points iff the length of its flattened positions is a multiple of 3 and
\* at least 6; any other freehand record contributes nothing, raises nothing
\* and leaves the primitives of the other records as they are.
C10_FreehandIffWholePoints ==
    (decoded /\ pc = "loaded" /\ data.annotations.k = "arr") =>
        /\ PointCounts(SelectSeq(scene.annGroup.prims, IsFreehandLine))
             = PointsHeld(SelectSeq(data.annotations.arr, ValidFreehand))
        /\ SelectSeq(scene.annGroup.prims, NotFreehandLine)
             = buildAnnotations(JArr(SelectSeq(data.annotations.arr, NotFreehandRecord))).prims

\* C10: the input on which the claim fails: a freehand record of 7 values
\* is drawn, its last point completed with zeros
C10_SevenValuesDrawn ==
    /\ decoded
    /\ pc = "loaded"
    /\ data.annotations.k = "arr"
    /\ Len(data.annotations.arr) = 1
    /\ KindOf(data.annotations.arr[1]) = "freehand"
    /\ PositionsLen(data.annotations.arr[1]) = 7
    /\ Len(scene.annGroup.prims) = 1
    /\ Len(scene.annGroup.prims[1].pts) = 3
    /\ scene.annGroup.prims[1].pts[3] = <<JNum(Int2Num(2)), JNum(Zero), JNum(Zero)>>

-----------------------------------------------------------------------------
(* Claims about the filter and the framing.  `scene.points` holds the       *)
(* arrays of the rendered geometry, `data` the decoded snapshot.            *)

\* coordinate c (1, 2, 3) of point i (0-based) of a flat array
Coord(arr, i, c) == arr[3 * i + c]

\* the least and the greatest coordinate c over the points of a flat array
\* that holds at least one point
AxisMin(arr, c) ==
    CHOOSE m \in { Coord(arr, i, c) : i \in 0..(Len(arr) \div 3 - 1) } :
        \A i \in 0..(Len(arr) \div 3 - 1) : Leq(m, Coord(arr, i, c))
AxisMax(arr, c) ==
    CHOOSE m \in { Coord(arr, i, c) : i \in 0..(Len(arr) \div 3 - 1) } :
        \A i \in 0..(Len(arr) \div 3 - 1) : Geq(m, Coord(arr, i, c))
AxisMid(arr, c) == Times(Plus(AxisMin(arr, c), AxisMax(arr, c)), Rat(1, 2))
AxisRange(arr, c) == Minus(AxisMax(arr, c), AxisMin(arr, c))

\* the three cuts of the claim on the full snapshot
StatedHeightFraction == IF variant = "orbit" THEN Rat(9, 20) ELSE Rat(1, 2)
StatedKeep(i) ==
    /\ Geq(Coord(data.positions, i, 1), AxisMid(data.positions, 1))
    /\ Leq(Coord(data.positions, i, 3),
           Plus(AxisMin(data.positions, 3), Times(AxisRange(data.positions, 3), Rat(3, 4))))
    /\ Geq(Coord(data.positions, i, 2),
           Plus(AxisMin(data.positions, 2),
                Times(AxisRange(data.positions, 2), StatedHeightFraction)))

\* the cuts of the grid example: x >= 5, z <= 7.5, y >= 5
GridKeep(i) ==
    /\ Geq(Coord(data.positions, i, 1), Int2Num(5))
    /\ Leq(Coord(data.positions, i, 3), Rat(15, 2))
    /\ Geq(Coord(data.positions, i, 2), Int2Num(5))

Indices == [i \in 1..data.vertexCount |-> i - 1]

\* the rendered arrays are the points of the snapshot at the indices K, in
\* the order of K, each with its own color
RendersExactly(K) ==
    /\ Len(scene.points.positions) = 3 * Len(K)
    /\ Len(scene.points.colors) = 3 * Len(K)
    /\ \A k \in 1..Len(K), c \in 1..3 :
        /\ scene.points.positions[3 * (k - 1) + c] = Coord(data.positions, K[k], c)
        /\ scene.points.colors[3 * (k - 1) + c] = Coord(data.colors, K[k], c)

\* the snapshot spans [0, 10] on each axis
SpansGrid ==
    /\ data.vertexCount > 0
    /\ \A c \in 1..3 :
        AxisMin(data.positions, c) = Zero /\ AxisMax(data.positions, c) = Int2Num(10)

\* the load handler filters: always in the orbit viewer, unless the option
\* is false in the trackball viewer
filterEnabled == variant = "orbit" \/ filterOpt # "off"

RendersAll ==
    scene.points.positions = data.positions /\ scene.points.colors = data.colors

\* C6 as stated: the viewer recognises a boolean filter option (default
\* true) and, in every variant, a disabled filter renders the full snapshot.
C6_DisabledRendersAllEveryVariant ==
    scene.points.present =>
        /\ filterOpt = "off" => RendersAll
        /\ filterOpt \in {"absent", "on"} => RendersExactly(SelectSeq(Indices, StatedKeep))

\* C6 amended: the trackball viewer recognises the filter option (default
\* true) and renders the full snapshot when it is false; the orbit viewer
\* has no such option and renders the filtered subset whatever is passed.
C6_DisabledRendersAllTrackball ==
    scene.points.present =>
        /\ (variant = "trackball" /\ filterOpt = "off") => RendersAll
        /\ (variant = "trackball" /\ filterOpt \in {"absent", "on"}) =>
               RendersExactly(SelectSeq(Indices, StatedKeep))
        /\ variant = "orbit" => RendersExactly(SelectSeq(Indices, StatedKeep))

\* C6: the trackball viewer with the filter disabled renders a snapshot of
\* which the filter would drop two points
C6_TrackballUnfiltered ==
    /\ variant = "trackball"
    /\ filterOpt = "off"
    /\ scene.points.present
    /\ data.vertexCount = 3
    /\ Len(scene.points.positions) = 9
    /\ Len(SelectSeq(Indices, StatedKeep)) = 1

\* the midpoint and the largest extent of the bounding box of the rendered
\* points; an empty geometry has the zero center and no extent
RenderedCenter ==
    IF scene.points.positions = <<>> THEN VecZero
    ELSE Vec3(AxisMid(scene.points.positions, 1),
              AxisMid(scene.points.positions, 2),
              AxisMid(scene.points.positions, 3))
RenderedMaxDim ==
    IF scene.points.positions = <<>> THEN Zero
    ELSE Max2(Max2(AxisRange(scene.points.positions, 1), AxisRange(scene.points.positions, 2)),
              AxisRange(scene.points.positions, 3))

\* the offsets and the up vectors of the two policies
StatedOffset ==
    IF variant = "orbit" THEN Vec3(Rat(-1, 10), Rat(1, 4), Rat(8, 5))
    ELSE Vec3(Rat(-1, 2), Rat(-14, 5), Zero)
StatedUp ==
    IF variant = "orbit" THEN Vec3(Zero, Int2Num(1), Zero) ELSE Vec3(Zero, Zero, Int2Num(1))

\* center + maxDim x offset
StatedPosition ==
    Vec3(Plus(RenderedCenter[1], Times(RenderedMaxDim, StatedOffset[1])),
         Plus(RenderedCenter[2], Times(RenderedMaxDim, StatedOffset[2])),
         Plus(RenderedCenter[3], Times(RenderedMaxDim, StatedOffset[3])))

\* the target, the up vector and the stored target after a load
FramedTarget ==
    /\ controls.target = RenderedCenter
    /\ s.initialTarget = RenderedCenter
    /\ camera.up = StatedUp
    /\ camera.position.v = s.initialPos.v

Coincident(arr) == \A j \in 1..Len(arr) : arr[j] = arr[((j - 1) % 3) + 1]

FiniteVec(v) == IsFinite(v[1]) /\ IsFinite(v[2]) /\ IsFinite(v[3])

\* C8: for a snapshot without vertices, a filter that keeps no point and a
\* subset of coincident points, filtering and framing complete without
\* raising; when maxDim = 0 the camera position is the target, the target is
\* the computed center, every coordinate is finite, and the pose of
\* construction is not put in its place.
C8_DegenerateGeometry ==
    /\ (decoded /\ settled) => (scene.points.present /\ s.initialSet)
    /\ (s.initialSet /\ Coincident(scene.points.positions)) =>
        /\ RenderedMaxDim = Zero
        /\ controls.target = RenderedCenter
        /\ FiniteVec(controls.target)
        /\ s.initialPos = At(controls.target)
        /\ camera.position = At(controls.target)

\* C8: a snapshot of two vertices of which the filter keeps none, framed at
\* the origin, after a frame has run
C8_EmptySubsetFramed ==
    /\ decoded
    /\ data.vertexCount = 2
    /\ scene.points.present
    /\ scene.points.positions = <<>>
    /\ s.initialSet
    /\ frames > 0
    /\ camera.position = At(VecZero)

-----------------------------------------------------------------------------
(* Claims about the ranges of the decoded values.                           *)

Within(a, lo, hi) == Leq(lo, a) /\ Leq(a, hi)

AllWithin(arr, lo, hi) == \A j \in 1..Len(arr) : Within(arr[j], lo, hi)

-----------------------------------------------------------------------------
(* Claims about the ring of a circle annotation.                            *)

IsCircleLine(prim) == prim.kind = "line" /\ prim.shape = "circle"
ValidCircle(ann) == KindOf(ann) = "circle" /\ PositionsLen(ann) >= 3

\* the radius the claim gives a circle record
StatedRadius(ann) ==
    IF Prop(ann, "radius").k = "num" /\ Gt(Prop(ann, "radius").num, Zero)
    THEN Prop(ann, "radius").num ELSE Rat(1, 20)

\* prim is a polyline of 65 points, point i at step i of 64 around the
\* given centre with the stated radius, every point at the given z
RingOf(prim, ann) ==
    /\ Len(prim.pts) = 65
    /\ \A j \in 1..65 :
        /\ prim.pts[j].step = j - 1
        /\ prim.pts[j].cx = Prop(ann, "positions").arr[1].num
        /\ prim.pts[j].cy = Prop(ann, "positions").arr[2].num
        /\ prim.pts[j].z = Prop(ann, "positions").arr[3]
        /\ prim.pts[j].radius = StatedRadius(ann)
    /\ \A j \in {1, 17, 33, 49} :
        /\ ringVertex(prim.pts[j]).z = ringVertex(prim.pts[j + 16]).z
        /\ ringVertex(prim.pts[j]).x # ringVertex(prim.pts[j + 16]).x

\* the stored first and last vertices of the ring are the same vertex
Closed(prim) == ringVertex(prim.pts[1]) = ringVertex(prim.pts[65])

\* the stored last vertex has the x and z of the first; its y is that of
\* the first when the centre's y is not 0, and lies below the first's by
\* the residue of Math.sin(2 * Math.PI) * radius when the centre's y is 0
ClosedUpToResidue(prim) ==
    /\ ringVertex(prim.pts[65]).x = ringVertex(prim.pts[1]).x
    /\ ringVertex(prim.pts[65]).z = ringVertex(prim.pts[1]).z
    /\ ringVertex(prim.pts[65]).y =
         IF prim.pts[1].cy # Zero THEN ringVertex(prim.pts[1]).y
         ELSE [near |-> Zero, off |-> -1]

Circles == SelectSeq(scene.annGroup.prims, IsCircleLine)
CircleRecords == SelectSeq(data.annotations.arr, ValidCircle)

-----------------------------------------------------------------------------
(* Claims about reset and autorotation.                                     *)

\* a camera pose: position, look-at target, up axis (the vector last
\* assigned and the drags that turned it since)
Pose(cam, ctl) ==
    [position |-> cam.position, target |-> ctl.target, up |-> cam.up, roll |-> cam.roll]

\* the pose captured right after framing (lines 187-188, 507-508), with the
\* up axis of the framing policy
InitialPose ==
    [position |-> s.initialPos, target |-> s.initialTarget, up |-> StatedUp, roll |-> 0]

\* C12 as stated: once a load has completed, a reset after any drags,
\* zooms, frames and autorotate toggles leaves the camera pose (position,
\* target, up axis) equal to the initial pose captured after framing.
C12_ResetRestoresPose ==
    [][(Reset /\ pc = "loaded") => Pose(camera', controls') = InitialPose]_vars

\* C12: in the orbit viewer with autorotation on, the last handler run was
\* a reset and the camera stands one autorotation step past the stored pose
C12_OrbitResetOvershoots ==
    /\ variant = "orbit"
    /\ pc = "loaded"
    /\ log.kind = "reset"
    /\ controls.autoRotate
    /\ camera.position = [s.initialPos EXCEPT !.rot = @ + 1]

\* the axis an up vector points along
UpAxis(up) == CHOOSE c \in 1..3 : up[c] = Int2Num(1)

\* a frame of the trackball viewer whose camera.up no drag has turned
TrackballFrame == Frame /\ variant = "trackball" /\ camera.roll = 0

\* C13 as stated: in the trackball viewer a frame with the autorotate flag
\* set turns (camera position - target) about the camera's up axis (+Z after
\* Policy B framing): the component along up is unchanged and only the two
\* components orthogonal to up change; with the flag clear the synthetic
\* step changes nothing.
C13_StepAboutUp ==
    [][TrackballFrame =>
         IF s.autoRotating
         THEN coordinate(camera'.position, UpAxis(camera.up))
                = coordinate(camera.position, UpAxis(camera.up))
         ELSE camera'.position = camera.position]_vars

\* C13: after Policy B framing (up = +Z) one autorotating frame has run and
\* the camera's z, its component along up, is no longer the framed one
C13_HeightChanged ==
    /\ variant = "trackball"
    /\ pc = "loaded"
    /\ camera.up = Vec3(Zero, Zero, Int2Num(1))
    /\ camera.roll = 0
    /\ camera.position.moved = 0
    /\ log.kind = "frame"
    /\ coordinate(camera.position, 3) # coordinate(s.initialPos, 3)
    /\ coordinate(camera.position, 2) = coordinate(s.initialPos, 2)

-----------------------------------------------------------------------------
(* Claims about the sessions of a component.                                *)

\* the fetch of a session that was torn down resolves or rejects: of a
\* session replaced by a newer one, or of the session of a component that
\* was unmounted
StaleResolution ==
    \/ StaleLoad
    \/ \E outcome \in {"ok", "http", "network"} : StaleResponse(outcome)
    \/ ~session.live /\ Load
    \/ ~session.live /\ \E outcome \in {"ok", "http", "network"} : Response(outcome)

\* the objects of the closures: scene, camera, controller of every session
Objects(st, sc, cam, ctl) ==
    <<[k \in DOMAIN st |-> <<st[k].scene, st[k].camera, st[k].controls>>], sc, cam, ctl>>

\* C14 as stated: when the fetch of a session torn down while it was in
\* flight resolves or rejects, the handlers install no geometry, change no
\* camera or controller, leave the state record (material, initial
\* position / target) and the status text, stat labels and controls
\* visibility as they are.
C14_StaleResolutionChangesNothing ==
    [][StaleResolution =>
         /\ Objects(stale', scene', camera', controls') = Objects(stale, scene, camera, controls)
         /\ s' = s
         /\ dom' = dom]_vars

\* C14: the second session is still fetching, and the load handler of the
\* first, torn down in flight, has installed its points in its scene, its
\* pose in the state record, and has shown the controls
C14_StaleLoadInstalled ==
    /\ session.n = 2
    /\ session.live
    /\ pc = "fetching"
    /\ stale[1].tornAt = "fetching"
    /\ stale[1].pc = "loaded"
    /\ stale[1].scene.points.present
    /\ s.initialSet
    /\ s.material
    /\ dom.uiShown
    /\ ~dom.statusShown
    /\ dom.stats.set

\* the sessions whose cleanup has run
TornDown == {k \in 1..session.n : k < session.n \/ ~session.live}

\* C15: after the teardown of a session none of its frame callbacks is
\* pending, so none is invoked or scheduled again (whether or not a frame
\* had fired before the teardown); its resize handler is no longer
\* registered, so no resize event runs it; and its renderer, and in the
\* trackball viewer its controller, has been released.
C15_TeardownStopsCallbacks ==
    /\ \A cb \in win.raf : cb.session \notin TornDown
    /\ win.resize \cap TornDown = {}
    /\ log.kind \in {"frame", "resize"} => log.live
    /\ \A k \in TornDown :
        /\ <<k, "renderer">> \in released
        /\ variant = "trackball" => <<k, "controls">> \in released

\* C15: the component was unmounted before its first animation frame
\* fired: nothing is pending or registered and the renderer is released
C15_TornDownBeforeFirstFrame ==
    /\ ~session.live
    /\ frames = 0
    /\ TornDown = {1}
    /\ win.raf = {}
    /\ win.resize = {}
    /\ <<1, "renderer">> \in released

\* the load of the current session has started and its decode has not
\* completed
loading == session.live /\ pc \in {"fetching", "response"}

\* C16 as stated: for every load (the first mount and every reload), until
\* the decode completes the status indicator is visible and the scene holds
\* no point cloud and no overlay; every frame drawn sees either the empty
\* scene or the completely installed one (points and overlay), never points
\* without the overlay.
C16_LoadingThenComplete ==
    /\ loading => (dom.statusShown /\ scene = emptyScene)
    /\ log.kind = "frame" => log.saw.points = log.saw.overlay

\* C16: the source was changed after a completed load: the second session
\* is fetching, the status indicator is still hidden and the controls of
\* the first load are still shown
C16_ReloadWithoutStatus ==
    /\ session.n = 2
    /\ loading
    /\ stale[1].tornAt = "loaded"
    /\ scene = emptyScene
    /\ ~dom.statusShown
    /\ dom.uiShown

\* the load of the current session fails: the fetch rejects or answers a
\* non-success status, or decode throws the format error
LoadFails ==
    /\ session.live
    /\ \/ Response("http")
       \/ Response("network")
       \/ Load /\ data'.err = "FormatError"

\* the message of the failure of a step
FailureText(d) ==
    IF d.err = "FormatError" THEN {errorText("FormatError")}
    ELSE {errorText("http"), errorText("network")}

\* C17 as stated: when the load fails with a format violation or a
\* transport failure, the status indicator shows the error message, the
\* controls stay hidden, no point cloud, camera pose, initial pose or
\* overlay is installed, and the session issues no further fetch.
C17_FailureShownNothingInstalled ==
    [][LoadFails =>
         /\ pc' = "error"
         /\ dom'.statusShown
         /\ dom'.statusText \in FailureText(data')
         /\ ~dom'.uiShown
         /\ <<scene', camera', controls', s'>> = <<scene, camera, controls, s>>
         /\ session' = session]_vars

\* C17: the second source, loaded after a first one was shown, fails the
\* format check: the message is written to a hidden status element and the
\* controls of the first load stay shown
C17_ErrorHiddenOnReload ==
    /\ session.n = 2
    /\ session.live
    /\ stale[1].tornAt = "loaded"
    /\ pc = "error"
    /\ data.err = "FormatError"
    /\ dom.statusText = errorText("FormatError")
    /\ ~dom.statusShown
    /\ dom.uiShown

-----------------------------------------------------------------------------
(* Claims about the frame loop.                                             *)

Occurrences(calls, name) == Cardinality({j \in DOMAIN calls : calls[j] = name})
Place(calls, name) == CHOOSE j \in DOMAIN calls : calls[j] = name
Pending(n) == {cb \in win.raf : cb.session = n}

\* C19: while a viewer is live exactly one frame callback of it is pending,
\* the one the last invocation scheduled, and none of any other viewer;
\* every invocation schedules one callback, then updates the controller
\* once, then draws once; in the trackball viewer the synthetic autorotation
\* step comes before the controller update of the same invocation.
C19_OneUpdateOneDrawOnePending ==
    /\ \A n \in 1..session.n : Cardinality(Pending(n)) <= 1
    /\ session.live =>
         /\ Pending(session.n) = {[session |-> session.n, id |-> s.animId]}
         /\ win.raf = Pending(session.n)
    /\ log.kind = "frame" =>
         /\ Occurrences(log.calls, "requestAnimationFrame") = 1
         /\ Occurrences(log.calls, "controls.update") = 1
         /\ Occurrences(log.calls, "renderer.render") = 1
         /\ Place(log.calls, "controls.update") < Place(log.calls, "renderer.render")
         /\ Occurrences(log.calls, "autoRotate") <= 1
         /\ Occurrences(log.calls, "autoRotate") = 1 =>
              /\ variant = "trackball"
              /\ Place(log.calls, "autoRotate") < Place(log.calls, "controls.update")

\* C19: the second frame callback of a trackball viewer has run with the
\* autorotate flag set, and one callback is pending
C19_SecondFrameRan ==
    /\ variant = "trackball"
    /\ session.live
    /\ frames = 2
    /\ log.kind = "frame"
    /\ log.calls = <<"requestAnimationFrame", "autoRotate", "controls.update", "renderer.render">>
    /\ Cardinality(win.raf) = 1

\* C20 as stated: a reset invoked while the current session has not
\* completed its own load leaves the camera and the controller as they
\* are; in particular it does not apply the initial position / target a
\* previous session stored.
C20_ResetBeforeLoadIsNoOp ==
    [][(Reset /\ pc # "loaded") => (camera' = camera /\ controls' = controls)]_vars

\* C20: the second session is still fetching, the last handler run was a
\* reset, and its controller looks at the target the first session stored
\* from the pose the first session stored
C20_PreviousPoseApplied ==
    /\ session.n = 2
    /\ session.live
    /\ pc = "fetching"
    /\ scene = emptyScene
    /\ log.kind = "reset"
    /\ log.session = 2
    /\ stale[1].tornAt = "loaded"
    /\ s.initialPos.v # mountCamera(variant, s).position.v
    /\ camera.position.v = s.initialPos.v
    /\ controls.target = s.initialTarget

-----------------------------------------------------------------------------
(* Claims about a header whose count does not fit the buffer.               *)

\* the complete 9-byte records present after byte 16
CompleteRecords == IF Len(buffer) < 16 THEN 0 ELSE (Len(buffer) - 16) \div 9

\* the header passes the magic / version check and bytes 4-7 are the count
\* of none of 0 .. CompleteRecords: the count is negative or exceeds the
\* records present
BadCount ==
    /\ Len(buffer) >= 8
    /\ SubSeq(buffer, 1, 4) = LSS1
    /\ \A k \in 0..CompleteRecords : SubSeq(buffer, 5, 8) # LE32(k)

\* C21: when the header passes the magic / version check and its
\* vertexCount is negative or exceeds the complete records present, decode
\* raises (a RangeError) and returns no snapshot, and the load ends in the
\* error status: no points, no overlay, no camera pose, no stored pose, the
\* controls hidden.
C21_BadCountRaises ==
    (BadCount /\ data.err # "pending") =>
        /\ data = Thrown("RangeError")
        /\ pc = "error"
        /\ dom.statusText = errorText("RangeError")
        /\ ~dom.uiShown
        /\ ~dom.stats.set
        /\ scene = emptyScene
        /\ controls.target = VecZero
        /\ camera.position.v = Vec3(Zero, Int2Num(1), Int2Num(3))
        /\ ~s.initialSet
        /\ ~s.material

\* C21: a header that counts 3 vertices before 2 records: the load handler
\* has run and frames have run after it
C21_CountPastRecords ==
    /\ buffer = Header(MagicLSS, 1, 3, 0) \o VertexRecords(RoundTripCloud)
    /\ BadCount
    /\ data = Thrown("RangeError")
    /\ pc = "error"
    /\ frames > 0
    /\ log.saw = [points |-> FALSE, overlay |-> FALSE]

-----------------------------------------------------------------------------
\* The hero canvas (scripts/heroAnimations.ts).

MaxTicks == 2

\* the keys of `animators`, a name that is no key of it, and two names that
\* the lookup `animators[type]` finds on Object.prototype
HeroTypes ==
    {"tempo", "ion-thruster", "sailing-rl", "solar-car", "3d-plane", "skrunners",
     "light-switch", "rocketry", "polymarket", "unknown", "constructor", "__proto__"}

\* what `if (animator) animator()` does for a type: a listed animator calls
\* its `draw` once, which requests the first frame, and animateCircuit also
\* starts an interval; an absent key starts nothing; "constructor" finds the
\* function Object, whose call starts nothing; "__proto__" finds an object
\* that is not callable, so the call throws a TypeError
animatorStarts(type) ==
    [frame    |-> type \in {"tempo", "ion-thruster", "sailing-rl", "solar-car", "3d-plane",
                            "skrunners", "light-switch", "rocketry", "polymarket"},
     interval |-> type = "light-switch",
     throws   |-> type = "__proto__"]

\* the state initHeroAnimation leaves behind; ctx is whether getContext('2d')
\* gave a context.  `returned` is whether the caller received a cleanup
\* function, `bound` whether that function is the one of lines 33-36.
initHeroAnimation(type, ctx) ==
    IF ~ctx
    THEN [type |-> type, bound |-> FALSE, returned |-> TRUE, rafId |-> -1, raf |-> {},
          timers |-> {}, resize |-> FALSE, nextId |-> 1, cleaned |-> FALSE,
          frames |-> 0, ticks |-> 0, last |-> [kind |-> "none", afterCleanup |-> FALSE]]
    ELSE [type |-> type, bound |-> TRUE, returned |-> ~animatorStarts(type).throws,
          rafId |-> IF animatorStarts(type).frame THEN 1 ELSE -1,
          raf |-> IF animatorStarts(type).frame THEN {1} ELSE {},
          timers |-> IF animatorStarts(type).interval THEN {1} ELSE {},
          resize |-> TRUE,
          nextId |-> IF animatorStarts(type).frame THEN 2 ELSE 1,
          cleaned |-> FALSE, frames |-> 0, ticks |-> 0,
          last |-> [kind |-> "none", afterCleanup |-> FALSE]]

\* the viewer is not on the page of the hero canvas
NoViewer ==
    /\ variant = "orbit" /\ filterOpt = "absent" /\ buffer = <<>> /\ pc = "idle"
    /\ data = NoData /\ scene = emptyScene /\ controls = newControls("orbit")
    /\ s = newState /\ camera = mountCamera("orbit", newState)
    /\ dom = [statusText |-> LoadingText, statusShown |-> FALSE, uiShown |-> FALSE,
              stats |-> NoStats]
    /\ frames = 0 /\ session = [n |-> 0, live |-> FALSE, fetches |-> 0]
    /\ win = [raf |-> {}, resize |-> {}, nextId |-> 1]
    /\ stale = <<>> /\ log = ran("none", 0, FALSE, 0, emptyScene) /\ released = {}

HeroInit ==
    /\ NoViewer
    /\ \E type \in HeroTypes, ctx \in BOOLEAN : hero = initHeroAnimation(type, ctx)

\* the window runs a pending animation-frame callback: `draw` paints and, as
\* its last statement, requests the next frame and stores its id in _rafId
draw ==
    /\ hero.frames < MaxFrames
    /\ \E id \in hero.raf :
          hero' = [hero EXCEPT !.raf = (@ \ {id}) \cup {hero.nextId},
                               !.rafId = hero.nextId,
                               !.nextId = @ + 1,
                               !.frames = @ + 1,
                               !.last = [kind |-> "frame", afterCleanup |-> hero.cleaned]]
    /\ UNCHANGED <<variant, filterOpt, buffer, pc, data, scene, camera, controls, s, dom,
                   frames, session, win, stale, log, released>>

\* the interval of animateCircuit fires: one more pulse is pushed
pushPulse ==
    /\ hero.ticks < MaxTicks
    /\ hero.timers # {}
    /\ hero' = [hero EXCEPT !.ticks = @ + 1,
                            !.last = [kind |-> "interval", afterCleanup |-> hero.cleaned]]
    /\ UNCHANGED <<variant, filterOpt, buffer, pc, data, scene, camera, controls, s, dom,
                   frames, session, win, stale, log, released>>

\* the window is resized: the listener, while registered, sizes the canvas
resize ==
    /\ hero.resize
    /\ hero' = [hero EXCEPT !.last = [kind |-> "resize", afterCleanup |-> hero.cleaned]]
    /\ UNCHANGED <<variant, filterOpt, buffer, pc, data, scene, camera, controls, s, dom,
                   frames, session, win, stale, log, released>>

\* the caller calls the function initHeroAnimation returned: the one of line 3
\* does nothing; the one of lines 33-36 cancels the request whose id _rafId
\* holds and removes the resize listener
cleanup ==
    /\ hero.returned
    /\ ~hero.cleaned
    /\ hero' = IF hero.bound
               THEN [hero EXCEPT !.raf = @ \ {hero.rafId}, !.resize = FALSE,
                                 !.cleaned = TRUE]
               ELSE [hero EXCEPT !.cleaned = TRUE]
    /\ UNCHANGED <<variant, filterOpt, buffer, pc, data, scene, camera, controls, s, dom,
                   frames, session, win, stale, log, released>>

NextHero ==
    \/ draw
    \/ pushPulse
    \/ resize
    \/ cleanup

Hero == HeroInit /\ [][NextHero]_vars

-----------------------------------------------------------------------------
\* C22: once the cleanup function returned by initHeroAnimation has been
\* called, nothing the animation registered with the window is left: no
\* animation-frame request is pending, no interval timer is registered, the
\* resize listener is removed, and no callback of the animation runs again.
C22_CleanupLeavesNothing ==
    hero.cleaned =>
        /\ hero.raf = {}
        /\ hero.timers = {}
        /\ ~hero.resize
        /\ ~hero.last.afterCleanup

\* the circuit animation after its cleanup: the interval is still registered
\* and has fired since
C22_IntervalOutlivesCleanup ==
    /\ hero.type = "light-switch"
    /\ hero.cleaned
    /\ hero.raf = {} /\ ~hero.resize
    /\ hero.timers # {}
    /\ hero.last = [kind |-> "interval", afterCleanup |-> TRUE]

=============================================================================
